---- MODULE Spec2Model ----
(***************************************************************************)
(* Model of the OemHikvision enrollment server and its Hikvision device    *)
(* client.                                                                 *)
(*   - the store: tables per / face / perface and the facialID sequence    *)
(*   - POST /api/enroll/:personaID : upload filter, person lookup, the     *)
(*     interactive transaction (findMany, updateMany, face.create,         *)
(*     perface.create, commit), the device mirror, the count, the response *)
(*   - HikvisionService.makeAuthenticatedRequest : the two-phase Digest    *)
(*     conversation, and the five device operations that wrap it           *)
(***************************************************************************)
EXTENDS Integers, Sequences, FiniteSets, TLC

(* ------------------------------ bounds --------------------------------- *)
\* number of request slots that can be in flight at the same time
NumReq == 2
\* largest facialID the sequence hands out in a run
MaxFaceID == 3

Reqs == 1..NumReq

(* ------------------------------ store ---------------------------------- *)
\* rows of table per (never written by the server); 3 is an id without a row
per == {1, 2}
PersonaIDs == {1, 2, 3}

VARIABLES face,      \* table face: set of rows <<facialID, activo>>
          perface,   \* table perface: set of <<personaID, facialID>>
          faceSeq,   \* next value of the facialID sequence
          req,       \* per request slot: the handler's locals and position
          hist       \* per request slot: history of the request (observer);
                     \* at 0: history of the run

vars == <<face, perface, faceSeq, req, hist>>

\* the stores a run can start from
InitStores ==
  { [face |-> {<<1, TRUE>>}, perface |-> {<<1, 1>>}, faceSeq |-> 2],
    [face |-> {<<1, FALSE>>, <<2, TRUE>>}, perface |-> {<<1, 1>>, <<1, 2>>}, faceSeq |-> 3],
    [face |-> {<<1, TRUE>>, <<2, TRUE>>}, perface |-> {<<1, 1>>, <<1, 2>>}, faceSeq |-> 3],
    [face |-> {<<1, FALSE>>, <<2, TRUE>>}, perface |-> {<<1, 1>>, <<1, 2>>, <<2, 2>>},
     faceSeq |-> 3] }

FaceIDs(fc) == { row[1] : row \in fc }

\* perface rows of a person, as facialIDs
FacesOf(pf, p) == { l[2] : l \in { x \in pf : x[1] = p } }
ActiveFacesOf(fc, pf, p) == { f \in FacesOf(pf, p) : <<f, TRUE>> \in fc }
InactiveFacesOf(fc, pf, p) == { f \in FacesOf(pf, p) : <<f, FALSE>> \in fc }

(* --------------------------- device client ----------------------------- *)
username == "admin"
password == "pw"

md5(data) == <<"md5", data>>

\* WWW-Authenticate header values: the scheme word and the key=value pairs
NoHeader == [present |-> FALSE, scheme |-> "", params |-> <<>>]
Header(s, ps) == [present |-> TRUE, scheme |-> s, params |-> ps]
FullDigest == Header("Digest", << <<"realm", "DS">>, <<"nonce", "n1">>, <<"qop", "auth">> >>)
WWWAuthenticate ==
  { NoHeader,
    FullDigest,
    Header("Digest", << <<"nonce", "n1">>, <<"qop", "auth">> >>),
    Header("Digest", << <<"realm", "DS">>, <<"qop", "auth">> >>),
    Header("Basic", << <<"realm", "DS">> >>),
    Header("Basic", << <<"realm", "Digest">> >>) }

\* authHeader.includes('Digest'): the text occurs anywhere in the header
IncludesDigest(h) ==
  \/ h.scheme = "Digest"
  \/ \E i \in 1..Len(h.params) : h.params[i][1] = "Digest" \/ h.params[i][2] = "Digest"

\* digest[key] after the regex loop: the last value of the key, or undefined
RECURSIVE DigestValue(_, _, _)
DigestValue(ps, key, i) ==
  IF i = 0 THEN "undefined"
  ELSE IF ps[i][1] = key THEN ps[i][2] ELSE DigestValue(ps, key, i - 1)

parseDigestHeader(h) ==
  [realm |-> DigestValue(h.params, "realm", Len(h.params)),
   nonce |-> DigestValue(h.params, "nonce", Len(h.params)),
   qop   |-> DigestValue(h.params, "qop", Len(h.params))]

\* values of crypto.randomBytes(16).toString('hex')
CNonces == {"c1", "c2"}

generateDigestAuth(method, uri, digestParams, cnonce) ==
  LET nc == "00000001"
      ha1 == md5(<<username, digestParams.realm, password>>)
      ha2 == md5(<<method, uri>>)
      response == md5(<<ha1, digestParams.nonce, nc, cnonce, digestParams.qop, ha2>>)
  IN [scheme |-> "Digest", username |-> username, realm |-> digestParams.realm,
      nonce |-> digestParams.nonce, uri |-> uri, qop |-> digestParams.qop,
      nc |-> nc, cnonce |-> cnonce, response |-> response]

NoAuthorization == [scheme |-> "none"]

\* what the device or the network answers to one HTTP request
Statuses == {200, 304, 401, 404, 500}
NetCodes == {"ECONNREFUSED", "ETIMEDOUT", "ECONNABORTED"}
Answers ==
  { [net |-> c, status |-> 0, header |-> NoHeader] : c \in NetCodes }
  \cup { [net |-> "", status |-> s, header |-> NoHeader] : s \in Statuses \ {401} }
  \cup { [net |-> "", status |-> 401, header |-> h] : h \in WWWAuthenticate }

\* the answers a mirror call of the enroll handler is run against: one of each
\* outcome (accepted, unreachable, rejected, Digest challenge; a 401 to the
\* authenticated request is the authentication failure)
MirrorAnswers ==
  { a \in Answers :
      \/ a.net = "ECONNREFUSED"
      \/ a.status \in {200, 500}
      \/ a.status = 401 /\ a.header = FullDigest }

NoAnswer == [net |-> "", status |-> 0, header |-> NoHeader]

\* validateStatus that accepts the challenge only / every client error
validateStatusOnly401(status) == status = 401
validateStatusBelow500(status) == status >= 200 /\ status < 500

\* validateStatus of the initial request
validateStatus(status) == status = 401 \/ (status >= 200 /\ status < 300)

\* the authenticated request accepting every status
defaultValidateStatusAny(status) == status >= 200

\* the second request sent with the validateStatus of the first
defaultValidateStatusWith401(status) == validateStatus(status)

\* axios' default validateStatus, in force for the authenticated request
defaultValidateStatus(status) == status >= 200 /\ status < 300

StatusMessage(status) ==
  CASE status = 304 -> "Request failed with status code 304"
    [] status = 401 -> "Request failed with status code 401"
    [] status = 404 -> "Request failed with status code 404"
    [] status = 500 -> "Request failed with status code 500"
    [] OTHER -> "Request failed with status code"

NetMessage(code) ==
  CASE code = "ECONNREFUSED" -> "connect ECONNREFUSED"
    [] code = "ETIMEDOUT" -> "connect ETIMEDOUT"
    [] OTHER -> "timeout of 30000ms exceeded"

\* the error client.request rejects with, for an answer it does not accept
AxiosError(a) ==
  IF a.net # "" THEN [message |-> NetMessage(a.net), code |-> a.net, status |-> 0]
  ELSE [message |-> StatusMessage(a.status), code |-> "ERR_BAD_RESPONSE", status |-> a.status]

\* the catch block of makeAuthenticatedRequest
CatchRequestError(error) ==
  IF error.code = "ECONNREFUSED"
    THEN [message |-> "Cannot connect to Hikvision device", code |-> "", status |-> 0]
  ELSE IF error.code = "ETIMEDOUT"
    THEN [message |-> "Connection timeout to Hikvision device", code |-> "", status |-> 0]
  ELSE error

DigestUnsupported ==
  [message |-> "Device does not support Digest authentication", code |-> "", status |-> 0]

\* the five operations: method, endpoint, body
DeviceOps == {"testConnection", "getFaceDatabase", "getDeviceCapabilities", "enrollFace", "deleteFace"}
OpMethod(op) ==
  CASE op = "enrollFace" -> "POST" [] op = "deleteFace" -> "DELETE" [] OTHER -> "GET"
OpEndpoint(op) ==
  CASE op = "testConnection" -> "/ISAPI/System/deviceInfo"
    [] op = "getFaceDatabase" -> "/ISAPI/Intelligent/FDLib"
    [] op = "getDeviceCapabilities" -> "/ISAPI/Intelligent/FDLib/capabilities"
    [] op = "enrollFace" -> "/ISAPI/Intelligent/FDLib/FDSet"
    [] OTHER -> "/ISAPI/Intelligent/FDLib/FDSet?FDID=1&FPID"
OpBody(op, personId) ==
  IF op = "enrollFace" THEN [FDID |-> "1", FPID |-> personId] ELSE [FDID |-> "", FPID |-> 0]

HttpRequest(op, personId, authorization) ==
  [method |-> OpMethod(op), url |-> OpEndpoint(op), data |-> OpBody(op, personId),
   Authorization |-> authorization]

\* the result objects of the operations
NoResult == [null |-> TRUE]
OpSuccess(op, status) ==
  [success |-> TRUE, status |-> status, error |-> "",
   message |-> IF op = "enrollFace" THEN "Face enrolled successfully to Hikvision device"
               ELSE IF op = "deleteFace" THEN "Face deleted successfully from Hikvision device"
               ELSE ""]
OpFailure(error) ==
  [success |-> FALSE, status |-> error.status, error |-> error.message, message |-> ""]

(* ------------------------------ requests ------------------------------- *)
Uploads == {"jpeg", "png", "gif", "toolarge", "none"}
NoResponse == [null |-> TRUE]

\* req.query of a request without query string
NoQuery == [page |-> "", search |-> ""]

IdleReq ==
  [pc |-> "idle", kind |-> "", op |-> "", personaID |-> 0,
   existingFaces |-> {}, txDeactivate |-> {}, txFace |-> 0, txLink |-> FALSE,
   result |-> 0, sent |-> <<>>, wire |-> NoAnswer, hikvisionError |-> "",
   hikvisionResult |-> NoResult, res |-> NoResponse, query |-> NoQuery]

IdleHist == [overlapped |-> FALSE, prevActive |-> {}, rejected |-> ""]

\* history of the run: no two enrollments have been in flight together so far
\* (and then the face each subject's latest commit inserted, 0 for none); a
\* device operation called on the service has been sent a Digest challenge
NoLast == [p \in per |-> 0]
RunHist == [sequential |-> TRUE, last |-> NoLast, challenged |-> FALSE]

InFlight(q) == req[q].kind = "enroll" /\ req[q].pc \notin {"idle", "done"}

\* res.json and the end of the handler are one synchronous step: no other
\* continuation runs between the response of a request and its Finish
Responding == \E q \in Reqs : req[q].pc = "done"

Init ==
  /\ \E s \in InitStores :
       /\ face = s.face
       /\ perface = s.perface
       /\ faceSeq = s.faceSeq
  /\ req = [r \in Reqs |-> IdleReq]
  /\ hist = [r \in Reqs \cup {0} |-> IF r = 0 THEN RunHist ELSE IdleHist]

Set(r, rec) == [req EXCEPT ![r] = rec]
Json(status, body) == [status |-> status, body |-> body]
ErrorBody(text) == [error |-> text]

(* ----------------- POST /api/enroll/:personaID: upload ----------------- *)
\* multer: fileFilter refuses other mimetypes, limits.fileSize refuses >5MB;
\* both errors reach the error-handling middleware
UploadError(upload) ==
  IF upload = "toolarge" THEN Json(400, ErrorBody("File too large. Maximum size is 5MB."))
  ELSE Json(500, ErrorBody("Internal server error"))

\* a new request takes the lowest free slot
LowestFree(r) == \A q \in Reqs : q < r => req[q].pc # "idle"

\* enroll requests that have not drawn their facialID yet
Pending == { q \in Reqs : req[q].pc \in {"lookup", "txFind", "txUpdate", "txCreate"} }

SameSubject(r, p) == { q \in Reqs \ {r} : InFlight(q) /\ req[q].personaID = p }

StartEnroll(r) ==
  /\ req[r].pc = "idle"
  /\ ~Responding
  /\ LowestFree(r)
  /\ faceSeq + Cardinality(Pending) <= MaxFaceID
  /\ \E p \in PersonaIDs, upload \in Uploads :
       IF upload \in {"gif", "toolarge"}
         THEN /\ req' = Set(r, [IdleReq EXCEPT !.pc = "done", !.kind = "enroll",
                                  !.res = UploadError(upload)])
              /\ hist' = [hist EXCEPT ![r].rejected = upload]
       ELSE IF upload = "none"
         THEN /\ req' = Set(r, [IdleReq EXCEPT !.pc = "done", !.kind = "enroll",
                                  !.res = Json(400, ErrorBody("No image file provided"))])
              /\ hist' = [hist EXCEPT ![r].rejected = upload]
       ELSE /\ req' = Set(r, [IdleReq EXCEPT !.pc = "lookup", !.kind = "enroll",
                                !.personaID = p])
            /\ hist' = [q \in Reqs \cup {0} |->
                          IF q = 0
                            THEN IF hist[0].sequential /\ \A o \in Reqs \ {r} : ~InFlight(o)
                                   THEN hist[0]
                                   ELSE [hist[0] EXCEPT !.sequential = FALSE, !.last = NoLast]
                          ELSE IF q = r THEN [IdleHist EXCEPT !.overlapped = SameSubject(r, p) # {}]
                          ELSE IF q \in SameSubject(r, p)
                            THEN [hist[q] EXCEPT !.overlapped = TRUE]
                          ELSE hist[q]]
  /\ UNCHANGED <<face, perface, faceSeq>>

\* the catch of the handler
EnrollCatch(r) ==
  /\ req' = Set(r, [req[r] EXCEPT !.pc = "done",
                      !.res = Json(500, ErrorBody("Failed to enroll face"))])
  /\ UNCHANGED <<face, perface, faceSeq, hist>>

(* ------------------------- person lookup -------------------------------- *)
\* the handler without the 404 branch
LookupNoCheck(r) ==
  /\ req[r].pc = "lookup"
  /\ ~Responding
  /\ req' = Set(r, [req[r] EXCEPT !.pc = "txFind"])
  /\ UNCHANGED <<face, perface, faceSeq, hist>>

Lookup(r) ==
  /\ req[r].pc = "lookup"
  /\ ~Responding
  /\ IF req[r].personaID \in per
       THEN req' = Set(r, [req[r] EXCEPT !.pc = "txFind"])
       ELSE req' = Set(r, [req[r] EXCEPT !.pc = "done",
                            !.res = Json(404, ErrorBody("Person not found"))])
  /\ UNCHANGED <<face, perface, faceSeq, hist>>

LookupFail(r) ==
  /\ req[r].pc = "lookup"
  /\ ~Responding
  /\ EnrollCatch(r)

(* --------------------------- transaction -------------------------------- *)
\* findFirst in place of findMany
TxFindFirst(r) ==
  /\ req[r].pc = "txFind"
  /\ ~Responding
  /\ LET found == FacesOf(perface, req[r].personaID) IN
     req' = Set(r, [req[r] EXCEPT !.pc = "txUpdate",
                     !.existingFaces = { f \in found : \A g \in found : f <= g }])
  /\ UNCHANGED <<face, perface, faceSeq, hist>>

TxFindMany(r) ==
  /\ req[r].pc = "txFind"
  /\ ~Responding
  /\ req' = Set(r, [req[r] EXCEPT !.pc = "txUpdate",
                      !.existingFaces = FacesOf(perface, req[r].personaID)])
  /\ UNCHANGED <<face, perface, faceSeq, hist>>

\* updateMany issued on the client instead of the transaction
TxUpdateManyDirect(r) ==
  /\ req[r].pc = "txUpdate"
  /\ ~Responding
  /\ req' = Set(r, [req[r] EXCEPT !.pc = "txCreate"])
  /\ face' = { row \in face : row[1] \notin req[r].existingFaces }
               \cup { <<f, FALSE>> : f \in req[r].existingFaces \cap FaceIDs(face) }
  /\ UNCHANGED <<perface, faceSeq, hist>>

TxUpdateMany(r) ==
  /\ req[r].pc = "txUpdate"
  /\ ~Responding
  /\ req' = Set(r, [req[r] EXCEPT !.pc = "txCreate",
                      !.txDeactivate = req[r].existingFaces])
  /\ UNCHANGED <<face, perface, faceSeq, hist>>

TxFaceCreate(r) ==
  /\ req[r].pc = "txCreate"
  /\ ~Responding
  /\ req' = Set(r, [req[r] EXCEPT !.pc = "txLink", !.txFace = faceSeq])
  /\ faceSeq' = faceSeq + 1
  /\ UNCHANGED <<face, perface, hist>>

TxPerfaceCreate(r) ==
  /\ req[r].pc = "txLink"
  /\ ~Responding
  /\ req' = Set(r, [req[r] EXCEPT !.pc = "commit", !.txLink = TRUE])
  /\ UNCHANGED <<face, perface, faceSeq, hist>>

\* updateMany without its where clause
CommitFaceDeactivateAll(fc, deactivate, newFace) ==
  { <<row[1], FALSE>> : row \in fc } \cup { <<newFace, TRUE>> }

\* the transaction without its updateMany
CommitFaceNoDeactivate(fc, deactivate, newFace) == fc \cup { <<newFace, TRUE>> }

\* the rows of face after the pending updateMany and create are applied
CommitFace(fc, deactivate, newFace) ==
  { row \in fc : row[1] \notin deactivate }
    \cup { <<f, FALSE>> : f \in deactivate \cap FaceIDs(fc) }
    \cup { <<newFace, TRUE>> }

\* the link written outside the transaction and lost
CommitPerfaceNoLink(pf, p, newFace, link) == pf

CommitPerface(pf, p, newFace, link) ==
  IF link THEN pf \cup { <<p, newFace>> } ELSE pf

TxCommit(r) ==
  /\ req[r].pc = "commit"
  /\ ~Responding
  /\ face' = CommitFace(face, req[r].txDeactivate, req[r].txFace)
  /\ perface' = CommitPerface(perface, req[r].personaID, req[r].txFace, req[r].txLink)
  /\ req' = Set(r, [req[r] EXCEPT !.pc = "mirror", !.result = req[r].txFace])
  /\ hist' = [hist EXCEPT ![r].prevActive = ActiveFacesOf(face, perface, req[r].personaID),
                          ![0].last = IF hist[0].sequential
                                        THEN [@ EXCEPT ![req[r].personaID] = req[r].txFace]
                                        ELSE @]
  /\ UNCHANGED faceSeq

TxPcs == {"txFind", "txUpdate", "txCreate", "txLink", "commit"}

\* any statement of the transaction, or the commit, rejects: rollback
TxFail(r) ==
  /\ req[r].pc \in TxPcs
  /\ ~Responding
  /\ EnrollCatch(r)

(* ------------------- makeAuthenticatedRequest --------------------------- *)
\* what the code does with the answer to the initial request:
\* return it, throw, or go on to the authenticated request
InitialDecision(a) ==
  IF a.net # "" \/ ~validateStatus(a.status) THEN "throw"
  ELSE IF a.status = 401
    THEN IF ~a.header.present \/ ~IncludesDigest(a.header) THEN "unsupported" ELSE "authenticate"
  ELSE "return"

\* the operation's try/catch around makeAuthenticatedRequest, and for
\* enrollFace the lines of the handler that read the result; the HTTP
\* conversation of the call is over
OpReturns(r, result) ==
  IF req[r].kind = "enroll"
    THEN req' = Set(r, [req[r] EXCEPT !.pc = "count", !.sent = <<>>, !.wire = NoAnswer,
                         !.hikvisionResult = result,
                         !.hikvisionError = IF ~result.success THEN result.error ELSE ""])
    ELSE req' = Set(r, [req[r] EXCEPT !.pc = "done", !.sent = <<>>, !.wire = NoAnswer,
                         !.hikvisionResult = result, !.res = Json(200, result)])

\* a route or caller invokes one of the operations; the initial request leaves
StartDevice(r) ==
  /\ req[r].pc = "idle"
  /\ ~Responding
  /\ \E op \in DeviceOps, p \in per :
       LET personId == IF op \in {"enrollFace", "deleteFace"} THEN p ELSE 0 IN
       req' = Set(r, [IdleReq EXCEPT !.pc = "wait1", !.kind = "device", !.op = op,
                       !.personaID = personId,
                       !.sent = << HttpRequest(op, personId, NoAuthorization) >>])
  /\ UNCHANGED <<face, perface, faceSeq, hist>>

\* the mirror step of the enroll handler: hikvisionService.enrollFace
EnrollFace(r) ==
  /\ req[r].pc = "mirror"
  /\ ~Responding
  /\ req' = Set(r, [req[r] EXCEPT !.pc = "wait1", !.op = "enrollFace",
                      !.sent = << HttpRequest("enrollFace", req[r].personaID,
                                              NoAuthorization) >>])
  /\ UNCHANGED <<face, perface, faceSeq, hist>>

AnswersTo(r) == IF req[r].kind = "enroll" THEN MirrorAnswers ELSE Answers

\* the device, or the network, answers the initial request
InitialAnswer(r) ==
  /\ req[r].pc = "wait1"
  /\ ~Responding
  /\ \E a \in AnswersTo(r) : req' = Set(r, [req[r] EXCEPT !.pc = "got1", !.wire = a])
  /\ UNCHANGED <<face, perface, faceSeq, hist>>

\* the continuation of the first await
InitialResponse(r) ==
  /\ req[r].pc = "got1"
  /\ ~Responding
  /\ LET a == req[r].wire
         d == InitialDecision(a) IN
     /\ hist' = [hist EXCEPT ![0].challenged =
                    @ \/ (req[r].kind = "device" /\ d = "authenticate")]
     /\ IF d = "throw"
          THEN OpReturns(r, OpFailure(CatchRequestError(AxiosError(a))))
        ELSE IF d = "unsupported"
          THEN OpReturns(r, OpFailure(CatchRequestError(DigestUnsupported)))
        ELSE IF d = "return"
          THEN OpReturns(r, OpSuccess(req[r].op, a.status))
        ELSE \E cnonce \in CNonces :
               req' = Set(r, [req[r] EXCEPT !.pc = "wait2", !.wire = NoAnswer,
                       !.sent = Append(@, HttpRequest(req[r].op, req[r].personaID,
                                  generateDigestAuth(OpMethod(req[r].op), OpEndpoint(req[r].op),
                                                     parseDigestHeader(a.header), cnonce)))])
  /\ UNCHANGED <<face, perface, faceSeq>>

\* the answer to the authenticated request and the continuation of its await
AuthenticatedResponse(r) ==
  /\ req[r].pc = "wait2"
  /\ ~Responding
  /\ \E a \in AnswersTo(r) :
       IF a.net # "" \/ ~defaultValidateStatus(a.status)
         THEN OpReturns(r, OpFailure(CatchRequestError(AxiosError(a))))
         ELSE OpReturns(r, OpSuccess(req[r].op, a.status))
  /\ UNCHANGED <<face, perface, faceSeq, hist>>

(* ---------------------- count and response ------------------------------ *)
deactivatedCount(fc, pf, p) == Cardinality(InactiveFacesOf(fc, pf, p))

EnrollBody(r) ==
  [success |-> TRUE,
   message |-> "Face enrolled successfully to database",
   faceId |-> req[r].result,
   deactivatedFaces |-> deactivatedCount(face, perface, req[r].personaID),
   hikvision |->
     [success |-> req[r].hikvisionResult.success,
      message |-> IF req[r].hikvisionResult.message # "" THEN req[r].hikvisionResult.message
                  ELSE IF req[r].hikvisionError # "" THEN req[r].hikvisionError
                  ELSE "Device enrollment failed",
      error |-> req[r].hikvisionError]]

Count(r) ==
  /\ req[r].pc = "count"
  /\ ~Responding
  /\ req' = Set(r, [req[r] EXCEPT !.pc = "done", !.res = Json(200, EnrollBody(r))])
  /\ UNCHANGED <<face, perface, faceSeq, hist>>

CountFail(r) ==
  /\ req[r].pc = "count"
  /\ ~Responding
  /\ EnrollCatch(r)

\* the response has been sent; the slot serves the next request
Finish(r) ==
  /\ req[r].pc = "done"
  /\ req' = Set(r, IdleReq)
  /\ hist' = [hist EXCEPT ![r] = IdleHist]
  /\ UNCHANGED <<face, perface, faceSeq>>

(* ------------------------- UI: handleUpload ----------------------------- *)
\* response.ok
ResponseOk(response) == response.status >= 200 /\ response.status <= 299

\* the message the upload handler of the UI shows for the response of
\* POST /api/enroll/:personaID
handleUpload(response) ==
  IF ResponseOk(response)
    THEN IF response.body.hikvision.success
           THEN [type |-> "success", text |-> "Also enrolled to Hikvision device."]
           ELSE [type |-> "warning", text |-> response.body.hikvision.message]
    ELSE [type |-> "error", text |-> response.body.error]

(* -------------------------- GET /api/personas --------------------------- *)
\* rows of per in the order of orderBy nombre, apellido
perOrdered == <<1, 2>>
nombre(p) == IF p = 1 THEN "Juan" ELSE "Maria"
apellido(p) == IF p = 1 THEN "Perez" ELSE "Garcia"

\* query strings of a request: page, search
PageQueries == {"", "0", "1", "2", "3", "-1", "abc"}
SearchQueries == {"", "a", "juan", "GARCIA", "zzz"}

NaN == [nan |-> TRUE, value |-> 0]
Number(n) == [nan |-> FALSE, value |-> n]
parseInt(text) ==
  CASE text = "0" -> Number(0) [] text = "1" -> Number(1) [] text = "2" -> Number(2)
    [] text = "3" -> Number(3) [] text = "-1" -> Number(-1) [] OTHER -> NaN

\* { contains: search, mode: 'insensitive' } on one column
containsInsensitive(column, search) ==
  CASE search = "a" -> TRUE
    [] search = "juan" -> column = "Juan"
    [] search = "GARCIA" -> column = "Garcia"
    [] OTHER -> FALSE

\* the rows of per the where clause selects
whereMatches(search) ==
  IF search = "" THEN per
  ELSE { p \in per : containsInsensitive(nombre(p), search)
                        \/ containsInsensitive(apellido(p), search) }

limit == 18

pageOf(query) ==
  LET n == parseInt(query.page) IN IF n.nan \/ n.value = 0 THEN 1 ELSE n.value

skipOf(query) == (pageOf(query) - 1) * limit

\* Math.ceil(total / limit), total >= 0
totalPagesOf(total) == (total + limit - 1) \div limit

\* findMany with where, orderBy, skip, take
RECURSIVE Filter(_, _)
Filter(rows, keep) ==
  IF rows = <<>> THEN <<>>
  ELSE (IF Head(rows) \in keep THEN <<Head(rows)>> ELSE <<>>) \o Filter(Tail(rows), keep)

findManyPer(search, skip, take) ==
  LET rows == Filter(perOrdered, whereMatches(search))
      last == IF skip + take < Len(rows) THEN skip + take ELSE Len(rows)
  IN SubSeq(rows, skip + 1, last)

PersonasBody(query) ==
  LET page == pageOf(query)
      personas == findManyPer(query.search, skipOf(query), limit)
      total == Cardinality(whereMatches(query.search))
      totalPages == totalPagesOf(total)
  IN [personas |-> [i \in 1..Len(personas) |->
                      [personaID |-> personas[i],
                       activeFaces |-> Cardinality(ActiveFacesOf(face, perface, personas[i])),
                       totalFaces |-> Cardinality(FacesOf(perface, personas[i]))]],
      pagination |-> [currentPage |-> page, totalPages |-> totalPages, totalItems |-> total,
                      hasNext |-> page < totalPages, hasPrev |-> page > 1]]

\* the handler; the store refuses a negative skip
Personas(r) ==
  /\ req[r].pc = "idle"
  /\ ~Responding
  /\ \E pg \in PageQueries, search \in SearchQueries :
       LET query == [page |-> pg, search |-> search] IN
       /\ skipOf(query) >= 0
       /\ req' = Set(r, [IdleReq EXCEPT !.pc = "done", !.kind = "search", !.query = query,
                            !.res = Json(200, PersonasBody(query))])
  /\ UNCHANGED <<face, perface, faceSeq, hist>>

\* findMany or count rejects: the catch of the handler
PersonasFail(r) ==
  /\ req[r].pc = "idle"
  /\ ~Responding
  /\ \E pg \in PageQueries, search \in SearchQueries :
       req' = Set(r, [IdleReq EXCEPT !.pc = "done", !.kind = "search",
                        !.query = [page |-> pg, search |-> search],
                        !.res = Json(500, ErrorBody("Internal server error"))])
  /\ UNCHANGED <<face, perface, faceSeq, hist>>

Next ==
  \E r \in Reqs :
    \/ StartEnroll(r)
    \/ Lookup(r)
    \/ LookupFail(r)
    \/ TxFindMany(r)
    \/ TxUpdateMany(r)
    \/ TxFaceCreate(r)
    \/ TxPerfaceCreate(r)
    \/ TxCommit(r)
    \/ TxFail(r)
    \/ EnrollFace(r)
    \/ InitialAnswer(r)
    \/ InitialResponse(r)
    \/ AuthenticatedResponse(r)
    \/ Count(r)
    \/ CountFail(r)
    \/ Finish(r)

Spec == Init /\ [][Next]_vars

\* the device client alone: one caller running operations one after another
NextDevice ==
  \E r \in {1} :
    \/ StartDevice(r)
    \/ InitialAnswer(r)
    \/ InitialResponse(r)
    \/ AuthenticatedResponse(r)
    \/ Finish(r)

SpecDevice == Init /\ [][NextDevice]_vars

\* the enrollment route serving one request at a time
NextSeq ==
  \E r \in {1} :
    \/ StartEnroll(r)
    \/ Lookup(r)
    \/ LookupFail(r)
    \/ TxFindMany(r)
    \/ TxUpdateMany(r)
    \/ TxFaceCreate(r)
    \/ TxPerfaceCreate(r)
    \/ TxCommit(r)
    \/ TxFail(r)
    \/ EnrollFace(r)
    \/ InitialAnswer(r)
    \/ InitialResponse(r)
    \/ AuthenticatedResponse(r)
    \/ Count(r)
    \/ CountFail(r)
    \/ Finish(r)

SpecSeq == Init /\ [][NextSeq]_vars

\* the search route alone
NextSearch ==
  \E r \in {1} :
    \/ Personas(r)
    \/ PersonasFail(r)
    \/ Finish(r)

SpecSearch == Init /\ [][NextSearch]_vars

(* ------------------------------ claims --------------------------------- *)
\* the step of request r in which its transaction commits
Commits(r) == req[r].pc = "commit" /\ req'[r].pc = "mirror"

\* C1: an enrollment that commits with no overlapping request for the same
\* subject turns exactly the subject's previously active faces inactive and
\* leaves the subject with exactly one active face, the new one, linked to it
C1_EnrollReplacesActiveFaces ==
  [][\A r \in Reqs :
       (Commits(r) /\ ~hist[r].overlapped) =>
         LET p == req[r].personaID
             prev == ActiveFacesOf(face, perface, p)
             new == req'[r].result
         IN /\ \A f \in prev : <<f, FALSE>> \in face' /\ <<f, TRUE>> \notin face'
            /\ { f \in FaceIDs(face) : <<f, TRUE>> \in face /\ <<f, TRUE>> \notin face' } = prev
            /\ new \notin FaceIDs(face)
            /\ ActiveFacesOf(face', perface', p) = {new}
            /\ FacesOf(perface', p) = FacesOf(perface, p) \cup {new}
            /\ Cardinality(InactiveFacesOf(face', perface', p))
                 = Cardinality(InactiveFacesOf(face, perface, p)) + Cardinality(prev)]_vars

\* a subject with two active faces has been enrolled without overlap
C1_Witness ==
  \E r \in Reqs :
    /\ req[r].pc = "mirror"
    /\ ~hist[r].overlapped
    /\ Cardinality(hist[r].prevActive) = 2
    /\ ActiveFacesOf(face, perface, req[r].personaID) = {req[r].result}

\* the steps of a request for a subject id without a row in per
UnknownSubject(r) == req[r].kind = "enroll" /\ req[r].personaID \notin per /\ req[r].pc # "idle"

\* C2: an enrollment for a subject id that is not in the store changes no
\* table and not the sequence, sends nothing to the device, and is answered
\* with an error
C2_UnknownSubjectNoEffect ==
  /\ [](\A r \in Reqs :
          (req[r].kind = "enroll" /\ req[r].personaID \notin per /\ req[r].personaID # 0) =>
            /\ req[r].pc \in {"lookup", "done"}
            /\ req[r].txFace = 0 /\ req[r].result = 0
            /\ req[r].sent = <<>> /\ req[r].hikvisionResult = NoResult
            /\ req[r].pc = "done" => req[r].res.status \in {404, 500})
  /\ [][\A r \in Reqs :
          (req[r].pc = "lookup" /\ req[r].personaID \notin per /\ req'[r] # req[r]) =>
             /\ face' = face /\ perface' = perface /\ faceSeq' = faceSeq
             /\ req'[r].pc = "done"]_vars

C2_Witness ==
  \E r \in Reqs :
    /\ req[r].pc = "done" /\ req[r].personaID = 3
    /\ req[r].res = Json(404, ErrorBody("Person not found"))

\* a committed enrollment: the handler holds the face the transaction returned
Committed(r) == req[r].kind = "enroll" /\ req[r].result # 0

MirrorFailed(r) ==
  /\ Committed(r)
  /\ req[r].hikvisionResult # NoResult
  /\ ~req[r].hikvisionResult.success

\* what the commit of r wrote is in the store: the new face and its link, the
\* faces it deactivated inactive; with no overlapping request for the subject
\* these are all its prior active faces and the new face is active
CommitKept(r) ==
  /\ req[r].result \in FaceIDs(face)
  /\ <<req[r].personaID, req[r].result>> \in perface
  /\ \A f \in req[r].txDeactivate : <<f, TRUE>> \notin face
  /\ ~hist[r].overlapped =>
        /\ \A f \in hist[r].prevActive : <<f, FALSE>> \in face
        /\ <<req[r].result, TRUE>> \in face

\* C3: once the transaction has committed and the device mirror has failed,
\* the store keeps the committed rows (prior faces inactive, new face active
\* and linked) and the response carries success=true with hikvision.success=false
C3_MirrorFailureReported ==
  \A r \in Reqs :
    (req[r].pc = "done" /\ MirrorFailed(r)) =>
      /\ CommitKept(r)
      /\ req[r].res.status = 200
      /\ req[r].res.body.success = TRUE
      /\ req[r].res.body.hikvision.success = FALSE

\* C4: whenever the transaction of an enrollment has committed, the response
\* of that request is the primary success (status 200, success=true)
C4_CommittedMeansSuccess ==
  \A r \in Reqs :
    (req[r].pc = "done" /\ Committed(r)) =>
      /\ req[r].res.status = 200
      /\ req[r].res.body.success = TRUE

\* C5: deactivatedFaces in the response equals the number of faces this
\* enrollment turned from active to inactive
C5_DeactivatedFacesIsN ==
  \A r \in Reqs :
    (req[r].pc = "done" /\ Committed(r) /\ req[r].res.status = 200) =>
      req[r].res.body.deactivatedFaces = Cardinality(hist[r].prevActive)

\* C6: until its transaction has committed a request changes no row of face
\* or perface and sends nothing to the device; a transaction that fails is
\* answered with an error; a device request of an enrollment is only sent
\* once the new face and its link are in the store
C6_NoMirrorWithoutCommit ==
  /\ [](\A r \in Reqs :
          (req[r].kind = "enroll") =>
            /\ ~Committed(r) =>
                  /\ req[r].sent = <<>> /\ req[r].hikvisionResult = NoResult
                  /\ req[r].pc \notin {"mirror", "wait1", "got1", "wait2", "count"}
                  /\ req[r].txFace # 0 =>
                        /\ req[r].txFace \notin FaceIDs(face)
                        /\ <<req[r].personaID, req[r].txFace>> \notin perface
                  /\ req[r].pc = "done" => req[r].res.status >= 400
            /\ (req[r].sent # <<>> \/ req[r].hikvisionResult # NoResult) =>
                  /\ req[r].result \in FaceIDs(face)
                  /\ <<req[r].personaID, req[r].result>> \in perface)
  /\ [][\A r \in Reqs :
          (req[r].kind = "enroll" /\ req'[r] # req[r] /\ ~Committed(r)') =>
             /\ face' = face /\ perface' = perface
             /\ req[r].pc \in TxPcs /\ req'[r].pc = "done" =>
                   req'[r].res = Json(500, ErrorBody("Failed to enroll face"))]_vars

\* a transaction has failed after it had drawn its facialID
C6_Witness ==
  \E r \in Reqs :
    /\ req[r].pc = "done" /\ req[r].txFace # 0 /\ ~Committed(r)
    /\ req[r].existingFaces # {}
    /\ req[r].res.status = 500
    /\ req[r].sent = <<>> /\ req[r].hikvisionResult = NoResult

\* the step in which the operation of r returns to its caller
Returns(r) == req[r].pc \in {"got1", "wait2"} /\ req'[r].pc \in {"done", "count"}

Is2xx(status) == status >= 200 /\ status < 300

\* C7: an operation never sends more than two HTTP requests; the answer to
\* the authenticated request ends the operation, and a 401 to it is a failure
\* after one re-authentication
C7_SecondUnauthorizedIsFinal ==
  /\ [](\A r \in Reqs :
          /\ Len(req[r].sent) <= 2
          /\ req[r].pc = "wait2" => Len(req[r].sent) = 2)
  /\ [][\A r \in Reqs :
          (req[r].pc = "wait2" /\ req'[r] # req[r]) =>
             /\ Returns(r)
             /\ Len(req[r].sent) = 2
             /\ req'[r].hikvisionResult.status = 401 => ~req'[r].hikvisionResult.success]_vars

C7_Witness ==
  \E r \in Reqs :
    /\ req[r].pc = "done"
    /\ req[r].hikvisionResult # NoResult
    /\ req[r].hikvisionResult.status = 401
    /\ ~req[r].hikvisionResult.success

\* C8: a 401 to the initial request without a WWW-Authenticate header, or
\* with a challenge whose scheme is not Digest, makes the operation return a
\* failure without a second request
C8_NonDigestChallengeFails ==
  [][\A r \in Reqs :
       (/\ req[r].pc = "got1" /\ req'[r] # req[r]
        /\ req[r].wire.net = "" /\ req[r].wire.status = 401
        /\ (~req[r].wire.header.present \/ req[r].wire.header.scheme # "Digest")) =>
          /\ Returns(r)
          /\ ~req'[r].hikvisionResult.success
          /\ Len(req[r].sent) = 1]_vars

\* C9: a 2xx answer to the initial request is returned as the success of the
\* operation; that request is the only one and carries no Authorization
C9_FirstSuccessNoDigest ==
  /\ [](\A r \in Reqs :
          Len(req[r].sent) >= 1 => req[r].sent[1].Authorization = NoAuthorization)
  /\ [][\A r \in Reqs :
          (/\ req[r].pc = "got1" /\ req'[r] # req[r]
           /\ req[r].wire.net = "" /\ Is2xx(req[r].wire.status)) =>
             /\ Returns(r)
             /\ req'[r].hikvisionResult.success
             /\ req'[r].hikvisionResult.status = req[r].wire.status
             /\ Len(req[r].sent) = 1]_vars

C9_Witness ==
  \E r \in Reqs :
    /\ req[r].pc = "done" /\ req[r].kind = "device"
    /\ req[r].hikvisionResult.success
    /\ req[r].hikvisionResult.status = 200

\* C10: an answer to the initial request with a status other than 401 and
\* 2xx makes the operation return a failure without a second request
C10_OtherStatusFails ==
  [][\A r \in Reqs :
       (/\ req[r].pc = "got1" /\ req'[r] # req[r]
        /\ req[r].wire.net = "" /\ req[r].wire.status # 401 /\ ~Is2xx(req[r].wire.status)) =>
          /\ Returns(r)
          /\ ~req'[r].hikvisionResult.success
          /\ req'[r].hikvisionResult.status = req[r].wire.status
          /\ Len(req[r].sent) = 1]_vars

C10_Witness ==
  \E r \in Reqs :
    /\ req[r].pc = "done" /\ req[r].kind = "device"
    /\ ~req[r].hikvisionResult.success
    /\ req[r].hikvisionResult.status \in {304, 404, 500}

\* C11: every step that ends the HTTP conversation of an operation hands its
\* caller a result with a boolean success flag (the operation has no other
\* exit: an answer is followed by the result or by the authenticated request);
\* a failure carries an error text; success is reported only for a 2xx answer
\* to the last request sent
C11_OperationsNeverThrow ==
  /\ [](\A r \in Reqs :
          req[r].hikvisionResult # NoResult =>
            /\ req[r].hikvisionResult.success \in BOOLEAN
            /\ req[r].hikvisionResult.success =>
                  Is2xx(req[r].hikvisionResult.status) /\ req[r].hikvisionResult.error = ""
            /\ ~req[r].hikvisionResult.success => req[r].hikvisionResult.error # "")
  /\ [][\A r \in Reqs :
          (req[r].pc \in {"got1", "wait2"} /\ req'[r] # req[r]) =>
             /\ Returns(r) \/ (req[r].pc = "got1" /\ req'[r].pc = "wait2")
             /\ Returns(r) => req'[r].hikvisionResult # NoResult
             /\ (Returns(r) /\ req[r].pc = "got1" /\ req'[r].hikvisionResult.success) =>
                   req[r].wire.net = "" /\ Is2xx(req[r].wire.status)
             /\ (req[r].pc = "got1" /\ req[r].wire.net # "") =>
                   Returns(r) /\ ~req'[r].hikvisionResult.success]_vars

\* a delete on an unreachable device has returned its failure
C11_Witness ==
  \E r \in Reqs :
    /\ req[r].pc = "done" /\ req[r].op = "deleteFace"
    /\ req[r].hikvisionResult = OpFailure(CatchRequestError(AxiosError(
          [net |-> "ECONNREFUSED", status |-> 0, header |-> NoHeader])))
    /\ req[r].res.body.success = FALSE

\* C12: the rows of face and perface change only in the commit step of a
\* request, and that one step deactivates the faces the request found,
\* inserts its new face active and links it; the commit leaves active, besides
\* the new face, the active faces of the subject that the request's findMany
\* did not see, so two overlapping requests for one subject are not serialized
\* (the witness is the interleaving that ends with two active faces)
C12_PersistAtomicNotSerialized ==
  [][(face' # face \/ perface' # perface) =>
       \E r \in Reqs :
         LET p == req[r].personaID
             new == req[r].txFace
         IN /\ Commits(r)
            /\ \A q \in Reqs \ {r} : req'[q] = req[q]
            /\ <<new, TRUE>> \in face' /\ new \notin FaceIDs(face)
            /\ perface' = perface \cup { <<p, new>> }
            /\ \A f \in req[r].existingFaces : <<f, TRUE>> \notin face'
            /\ FaceIDs(face') = FaceIDs(face) \cup {new}
            /\ ActiveFacesOf(face', perface', p)
                 = {new} \cup (ActiveFacesOf(face, perface, p) \ req[r].existingFaces)]_vars

\* two overlapping requests for one subject have both committed and the faces
\* they inserted are both active
C12_Witness ==
  \E r, q \in Reqs :
    /\ r # q
    /\ Committed(r) /\ Committed(q)
    /\ req[r].personaID = req[q].personaID
    /\ req[r].result # req[q].result
    /\ {req[r].result, req[q].result} \subseteq
          ActiveFacesOf(face, perface, req[r].personaID)

\* the commit of r leaves the links and the active flags of subject b's faces
\* as they were
LeavesSubject(r, b) ==
  /\ FacesOf(perface', b) = FacesOf(perface, b)
  /\ \A f \in FacesOf(perface, b) : (<<f, TRUE>> \in face') = (<<f, TRUE>> \in face)
  /\ \A f \in FacesOf(perface, b) : (<<f, FALSE>> \in face') = (<<f, FALSE>> \in face)

\* the commit of r gives its subject the state of an enrollment run alone:
\* the faces found are all the subject's faces, they end inactive, and the new
\* face is the subject's one active face
AsIfAlone(r) ==
  LET p == req[r].personaID IN
  /\ req[r].existingFaces = FacesOf(perface, p)
  /\ FacesOf(perface', p) = req[r].existingFaces \cup {req[r].txFace}
  /\ ActiveFacesOf(face', perface', p) = {req[r].txFace}
  /\ InactiveFacesOf(face', perface', p) = req[r].existingFaces

\* C13: the commit of an enrollment for subject A changes neither the active
\* flag nor the links of any face linked to a different subject B, and with no
\* other request for A in flight it leaves A as an enrollment run alone does
C13_DifferentSubjectsIndependent ==
  [][\A r \in Reqs :
       Commits(r) =>
         /\ \A b \in per \ {req[r].personaID} : LeavesSubject(r, b)
         /\ ~hist[r].overlapped => AsIfAlone(r)]_vars

\* C13 as amended: the same, for every subject B that shares no face with A
C13_UnsharedSubjectsIndependent ==
  [][\A r \in Reqs :
       Commits(r) =>
         /\ \A b \in per \ {req[r].personaID} :
               FacesOf(perface, b) \cap FacesOf(perface, req[r].personaID) = {} =>
                 LeavesSubject(r, b)
         /\ ~hist[r].overlapped => AsIfAlone(r)]_vars

\* two requests for different subjects were in flight together, both have
\* committed, and each subject's only active face is the one its request made
C13_Witness ==
  \E r, q \in Reqs :
    /\ r # q
    /\ req[r].pc = "mirror" /\ req[q].pc \in {"mirror", "wait1", "got1", "wait2", "count"}
    /\ req[r].personaID # req[q].personaID
    /\ req[r].result > req[q].result /\ req[q].result # 0
    /\ ActiveFacesOf(face, perface, req[r].personaID) = {req[r].result}
    /\ ActiveFacesOf(face, perface, req[q].personaID) = {req[q].result}

\* C14: a search that matches no subject is answered with an empty list and
\* totalItems=0, totalPages=0, hasNext=false, hasPrev=false, whatever the
\* requested page
C14_EmptySearchPagination ==
  \A r \in Reqs :
    (/\ req[r].pc = "done" /\ req[r].kind = "search" /\ req[r].res.status = 200
     /\ whereMatches(req[r].query.search) = {}) =>
       /\ req[r].res.body.personas = <<>>
       /\ req[r].res.body.pagination.totalItems = 0
       /\ req[r].res.body.pagination.totalPages = 0
       /\ req[r].res.body.pagination.hasNext = FALSE
       /\ req[r].res.body.pagination.hasPrev = FALSE

\* C15: the UI shows an enrollment that committed and whose mirror failed as
\* a warning, never as a success or an error; it shows a success only when
\* the store write committed and the mirror succeeded
C15_MirrorFailureShownAsWarning ==
  \A r \in Reqs :
    (req[r].pc = "done" /\ req[r].kind = "enroll") =>
      /\ MirrorFailed(r) => handleUpload(req[r].res).type = "warning"
      /\ handleUpload(req[r].res).type = "success" =>
            /\ Committed(r)
            /\ req[r].hikvisionResult # NoResult
            /\ req[r].hikvisionResult.success

\* a Digest challenge without realm or without nonce
Malformed(h) ==
  /\ h.present /\ h.scheme = "Digest"
  /\ \/ parseDigestHeader(h).realm = "undefined"
     \/ parseDigestHeader(h).nonce = "undefined"

\* C16: a 401 to the initial request whose Digest challenge lacks realm or
\* nonce makes the operation return the failure 'Device does not support
\* Digest authentication' without sending an authenticated request
C16_MalformedChallengeFails ==
  [][\A r \in Reqs :
       (/\ req[r].pc = "got1" /\ req'[r] # req[r]
        /\ req[r].wire.net = "" /\ req[r].wire.status = 401
        /\ Malformed(req[r].wire.header)) =>
          /\ Returns(r)
          /\ ~req'[r].hikvisionResult.success
          /\ req'[r].hikvisionResult.error = DigestUnsupported.message
          /\ Len(req[r].sent) = 1]_vars

\* the error texts with which the client reports that the device cannot be
\* reached
UnreachableMessages ==
  { "Cannot connect to Hikvision device", "Connection timeout to Hikvision device" }

\* C17: a failed operation reports the device as unreachable exactly when the
\* request it sent last got no HTTP answer (connection refused, or the
\* per-call timeout exceeded); an authentication failure and a non-2xx answer
\* are never reported with these errors
C17_ConnectivityReportedUnreachable ==
  [][\A r \in Reqs :
       (Returns(r) /\ ~req'[r].hikvisionResult.success) =>
          LET connectivity == IF req[r].pc = "got1" THEN req[r].wire.net # ""
                              ELSE req'[r].hikvisionResult.status = 0
          IN connectivity <=> req'[r].hikvisionResult.error \in UnreachableMessages]_vars

\* C18: an upload refused at validation (no image, a type other than JPEG and
\* PNG, more than 5MB) is answered with a validation error (status 400), and
\* the request has looked up no subject, written nothing to the store and
\* sent nothing to the device
C18_RejectedUploadIsValidationError ==
  \A r \in Reqs :
    (req[r].pc = "done" /\ hist[r].rejected # "") =>
      /\ req[r].res.status = 400
      /\ req[r].personaID = 0 /\ req[r].existingFaces = {}
      /\ req[r].txFace = 0 /\ req[r].result = 0
      /\ req[r].sent = <<>> /\ req[r].hikvisionResult = NoResult

\* the second request of r repeats the first, with an Authorization added
RepeatsFirst(sent) ==
  /\ sent[2].method = sent[1].method
  /\ sent[2].url = sent[1].url
  /\ sent[2].data = sent[1].data
  /\ sent[2].Authorization # NoAuthorization

\* C19: the first request of every operation carries no Authorization, also
\* after earlier operations were sent a Digest challenge; a request with an
\* Authorization is only the second request of an operation whose own first
\* request was answered 401 with a Digest challenge, it is built from that
\* challenge and repeats the method, URL and body of the first
C19_NoAuthStateBetweenCalls ==
  /\ [](\A r \in Reqs :
          /\ Len(req[r].sent) >= 1 => req[r].sent[1].Authorization = NoAuthorization
          /\ Len(req[r].sent) = 2 => RepeatsFirst(req[r].sent))
  /\ [][\A r \in Reqs :
          /\ (req[r].pc = "idle" /\ req'[r].pc = "wait1" /\ hist[0].challenged) =>
                /\ Len(req'[r].sent) = 1
                /\ req'[r].sent[1].Authorization = NoAuthorization
          /\ (Len(req'[r].sent) = 2 /\ Len(req[r].sent) # 2) =>
                /\ req[r].pc = "got1" /\ Len(req[r].sent) = 1
                /\ req[r].wire.net = "" /\ req[r].wire.status = 401
                /\ req[r].wire.header.present /\ req[r].wire.header.scheme = "Digest"
                /\ req'[r].sent[2].Authorization.realm = parseDigestHeader(req[r].wire.header).realm
                /\ req'[r].sent[2].Authorization.nonce = parseDigestHeader(req[r].wire.header).nonce
                /\ req'[r].sent[2].Authorization.qop = parseDigestHeader(req[r].wire.header).qop]_vars

\* no face is linked to more than one subject
NoSharedFace ==
  \A l, m \in perface : l[2] = m[2] => l[1] = m[1]

\* C20: while no two enrollments have been in flight together, in a store
\* without a face linked to two subjects, every subject with a committed
\* enrollment has exactly one active face: the face its latest committed
\* enrollment inserted
C20_SequentialOneActiveFace ==
  (hist[0].sequential /\ NoSharedFace) =>
    \A p \in per :
      hist[0].last[p] # 0 =>
        /\ ActiveFacesOf(face, perface, p) = {hist[0].last[p]}
        /\ <<hist[0].last[p], TRUE>> \in face

\* a subject has been enrolled twice in a row: the face of the first
\* enrollment is inactive, the face of the second is its active face
C20_Witness ==
  \E p \in per :
    /\ hist[0].sequential /\ NoSharedFace
    /\ req[1].pc = "idle"
    /\ hist[0].last[p] = 3
    /\ {<<p, 2>>, <<p, 3>>} \subseteq perface
    /\ face = {<<1, FALSE>>, <<2, FALSE>>, <<3, TRUE>>}

====
